---- MODULE Spec2Model ----
(***************************************************************************)
(* Product lifecycle and settlement of the ReTag marketplace backend.      *)
(*                                                                         *)
(* The store holds Product, Order, User and OTP documents.  Every HTTP    *)
(* handler is a request: the part of the handler that runs up to and      *)
(* including its first awaited database call is one step, and every later *)
(* awaited database call is one further step, so that the handlers of     *)
(* concurrent requests interleave exactly where the code awaits.          *)
(***************************************************************************)
EXTENDS Integers, Sequences, FiniteSets, TLC

(* ------------------------------ bounds -------------------------------- *)
MaxProducts == 1
MaxOrders == 2
MaxInFlight == 2
MaxRequests == 5
MaxAddresses == 2
MaxOtps == 1
MaxClock == 10

(* ----------------------------- identities ----------------------------- *)
AdminEmail == "retagcontact00@gmail.com"

Sellers == {"alice"}

Email(u) == IF u = "admin" THEN AdminEmail ELSE u

IsAnyUser(u) == TRUE

IsAdmin(u) == Email(u) = AdminEmail

(* ------------------------------ documents ----------------------------- *)
\* Optional values are sequences of length 0 (absent) or 1 (present).
\* Absent numbers are 0, absent strings are "none" (both falsy in the code).
Oid(n) == [kind |-> "oid", n |-> n]

StaticId == [kind |-> "static", n |-> 1]

IsValidObjectId(id) == id.kind = "oid"

TheAnalysis ==
    [image_analysis |-> [caption |-> "Detected as: jersey", quality |-> "good",
                         condition_score |-> 8, features |-> <<"jersey">>],
     price_suggestion |-> [suggested_price |-> 800, reasoning |-> "Based on market analysis"]]

\* The analysis of an image the classifier labelled with a confidence below 0.05.
UnsureAnalysis ==
    [TheAnalysis EXCEPT !.image_analysis.quality = "poor",
                        !.image_analysis.condition_score = 0]

\* ProductSchema: ai_analysis.image_analysis.condition_score is required,
\* min 1, max 10; Product.create rejects any other document.
ValidProduct(doc) == doc.ai_analysis.image_analysis.condition_score \in 1..10

Notes(prefix, text) == [prefix |-> prefix, text |-> text]

NoNotes == Notes("", "none")

\* The value of product.admin_review when spread from an unset review.
EmptyReview ==
    [final_price |-> 0, mrp |-> 0, discount_percentage |-> 0, pricing_type |-> "none",
     admin_notes |-> NoNotes, reviewed_by |-> "none"]

NewProduct(seller, article, brand, gender, analysis) ==
    [seller |-> seller, article |-> article, brand |-> brand, gender |-> gender,
     category |-> "Tops", ai_analysis |-> analysis, status |-> "pending",
     admin_review |-> <<>>, pickup_details |-> "none", payment_details |-> "none",
     listed_product |-> <<>>, mainCategory |-> "none"]

NewOrderPrepaid(user, cart, amount, ref) ==
    [user |-> user, cart |-> cart, amount |-> amount, status |-> "created",
     razorpayOrderId |-> ref, razorpayPaymentId |-> "pay_0"]

NewOrder(user, cart, amount, ref) ==
    [user |-> user, cart |-> cart, amount |-> amount, status |-> "created",
     razorpayOrderId |-> ref, razorpayPaymentId |-> "none"]

(* ------------------------------ requests ------------------------------ *)
Hmac(order_id, payment_id) == [o |-> order_id, p |-> payment_id]

NoSignature == [o |-> 0, p |-> "none"]

ForgedSignature == [o |-> 0, p |-> "forged"]

NoBody ==
    [action |-> "none", final_price |-> 0, mrp |-> 0, discount_percentage |-> 0,
     pricing_type |-> "none", admin_notes |-> "none", price |-> 0, reason |-> "none",
     pickup_details |-> "none", payment_details |-> "none",
     payment_id |-> "none", signature |-> NoSignature,
     images |-> "none", analysis |-> <<>>,
     cart |-> {}, item |-> [price |-> <<>>, quantity |-> 0], amount |-> 0,
     addressId |-> 0, name |-> "none", isDefault |-> FALSE,
     email |-> "none", otp |-> "none", newPassword |-> "none"]

Idle ==
    [kind |-> "none", pc |-> "idle", caller |-> "none", id |-> 0, body |-> NoBody,
     doc |-> <<>>, ord |-> <<>>]

\* A completed request and its response, and for an updateMany the counts
\* the driver reports, for a query the ids of the documents returned.
NoResponse ==
    [kind |-> "none", caller |-> "none", id |-> 0, body |-> NoBody, resp |-> "none",
     matched |-> 0, modified |-> 0, result |-> {}]

Slots == 1..MaxInFlight

\* ai is the run of the pricing pipeline (analyzeProduct); the marketplace
\* handlers leave it alone.  user is the User document of the one account
\* the address and password handlers work on, otps the OTP collection and
\* clock the server's time in minutes.
VARIABLES products, orders, req, last, started, ai, user, otps, clock

vars == <<products, orders, req, last, started, ai, user, otps, clock>>

NotAnalyzing == [pc |-> "idle"]

\* bcrypt.hash: the stored value is not the password.
Hash(password) == [bcrypt |-> password]

\* The account as registered: no address, a password set.
NewUser == [email |-> Email("alice"), addresses |-> <<>>, password |-> Hash("old")]

Free(r) == req[r].pc = "idle"

\* A new request takes the first free handler slot.
CanStart(r) ==
    /\ Free(r)
    /\ started < MaxRequests
    /\ \A q \in Slots : q < r => ~Free(q)

\* The handler answers in the step in which the request arrived.
Respond(r, kind, caller, id, body, resp) ==
    /\ last' = [NoResponse EXCEPT !.kind = kind, !.caller = caller, !.id = id,
                                  !.body = body, !.resp = resp]
    /\ UNCHANGED req

\* The handler awaits a database call and goes on at pc.
Begin(r, kind, caller, id, body, pc, doc, ord) ==
    /\ req' = [req EXCEPT ![r] = [Idle EXCEPT !.kind = kind, !.pc = pc, !.caller = caller,
                                               !.id = id, !.body = body, !.doc = doc,
                                               !.ord = ord]]
    /\ UNCHANGED last

Answer(s, resp, matched, modified) ==
    [NoResponse EXCEPT !.kind = s.kind, !.caller = s.caller, !.id = s.id, !.body = s.body,
                       !.resp = resp, !.matched = matched, !.modified = modified]

\* The handler of slot r answers and the slot becomes free.
Finish(r, resp) ==
    /\ req' = [req EXCEPT ![r] = Idle]
    /\ last' = Answer(req[r], resp, 0, 0)

ProductExists(p) == p \in DOMAIN products

OrderExists(o) == o \in DOMAIN orders

Init ==
    /\ products = <<>>
    /\ orders = <<>>
    /\ req = [r \in Slots |-> Idle]
    /\ last = NoResponse
    /\ started = 0
    /\ ai = NotAnalyzing
    /\ user = NewUser
    /\ otps = <<>>
    /\ clock = 0

(* ------------------------------- submit ------------------------------- *)
\* images is what the upload holds: "none" no file, "gif" a file of a type
\* that is not allowed, "unreadable" a file that cannot be read, "jpeg" a
\* readable image; analysis is what analyzeProduct returns, <<>> when it throws.
SubmitBeforeAnalysis(r, u, images, analysis) ==
    /\ CanStart(r)
    /\ started' = started + 1
    /\ UNCHANGED orders
    /\ Len(products) < MaxProducts
    /\ products' = Append(products, NewProduct(u, "jersey", "Nike", "male", TheAnalysis))
    /\ Respond(r, "submit", u, Len(products) + 1,
               [NoBody EXCEPT !.images = images, !.analysis = analysis],
               IF images = "jpeg" /\ analysis # <<>> THEN "ok" ELSE "ServerError")

Submit(r, u, images, analysis) ==
    /\ CanStart(r)
    /\ started' = started + 1
    /\ UNCHANGED orders
    /\ IF images \in {"none", "gif"}
         THEN /\ Respond(r, "submit", u, 0, [NoBody EXCEPT !.images = images],
                         "ValidationError")
              /\ UNCHANGED products
         ELSE IF images = "unreadable"
         THEN /\ Respond(r, "submit", u, 0, [NoBody EXCEPT !.images = images],
                         "ServerError")
              /\ UNCHANGED products
         ELSE IF analysis = <<>>
                   \/ ~ValidProduct(NewProduct(u, "jersey", "Nike", "male", analysis[1]))
         THEN /\ Respond(r, "submit", u, 0,
                         [NoBody EXCEPT !.images = images, !.analysis = analysis],
                         "ServerError")
              /\ UNCHANGED products
         ELSE /\ Len(products) < MaxProducts
              /\ products' = Append(products,
                                    NewProduct(u, "jersey", "Nike", "male", analysis[1]))
              /\ Respond(r, "submit", u, Len(products) + 1,
                         [NoBody EXCEPT !.images = images, !.analysis = analysis], "ok")

(* --------------------------- mongoose save ---------------------------- *)
\* document.save() sends the paths the handler modified on the document it
\* loaded, filtered by _id only: a path the handler assigned with the value
\* it already had is not sent, and every other path keeps the stored value.
SaveDoc(cur, loaded, mod, always) ==
    [f \in DOMAIN cur |-> IF f \in always \/ mod[f] # loaded[f] THEN mod[f] ELSE cur[f]]

(* ---------------------------- acceptOffer ----------------------------- *)
AcceptFilterAnySeller(p, u) ==
    /\ ProductExists(p)
    /\ products[p].status = "pending"

AcceptFilter(p, u) ==
    /\ ProductExists(p)
    /\ products[p].seller = u
    /\ products[p].status = "pending"

AcceptModify(doc, body) ==
    [doc EXCEPT !.pickup_details = body.pickup_details,
                !.payment_details = body.payment_details,
                !.status = "approved"]

AcceptOffer(r, u, p, pickup, payment) ==
    LET body == [NoBody EXCEPT !.pickup_details = pickup, !.payment_details = payment] IN
    /\ CanStart(r)
    /\ started' = started + 1
    /\ UNCHANGED <<products, orders>>
    /\ IF pickup = "none" \/ payment = "none"
         THEN Respond(r, "accept", u, p, body, "ValidationError")
         ELSE IF ~AcceptFilter(p, u)
                THEN Respond(r, "accept", u, p, body, "NotFound")
                ELSE Begin(r, "accept", u, p, body, "save", <<products[p]>>, <<>>)

AcceptSave(r) ==
    LET s == req[r]
        loaded == s.doc[1] IN
    /\ s.kind = "accept" /\ s.pc = "save"
    /\ products' = [products EXCEPT ![s.id] =
                        SaveDoc(@, loaded, AcceptModify(loaded, s.body), {})]
    /\ Finish(r, "ok")
    /\ UNCHANGED <<orders, started>>

(* ---------------------------- rejectOffer ----------------------------- *)
RejectFilter(p, u) ==
    /\ ProductExists(p)
    /\ products[p].seller = u
    /\ products[p].status = "pending"

SpreadReview(admin_review) == IF admin_review = <<>> THEN EmptyReview ELSE admin_review[1]

RejectModifyNoPrefix(doc, body) ==
    [doc EXCEPT !.status = "rejected",
                !.admin_review =
                    IF body.reason # "none"
                      THEN <<[SpreadReview(doc.admin_review) EXCEPT
                                !.admin_notes = Notes("", body.reason)]>>
                      ELSE @]

RejectModify(doc, body) ==
    [doc EXCEPT !.status = "rejected",
                !.admin_review =
                    IF body.reason # "none"
                      THEN <<[SpreadReview(doc.admin_review) EXCEPT
                                !.admin_notes = Notes("Rejected by seller: ", body.reason)]>>
                      ELSE @]

RejectOffer(r, u, p, reason) ==
    LET body == [NoBody EXCEPT !.reason = reason] IN
    /\ CanStart(r)
    /\ started' = started + 1
    /\ UNCHANGED <<products, orders>>
    /\ IF ~RejectFilter(p, u)
         THEN Respond(r, "reject", u, p, body, "NotFound")
         ELSE Begin(r, "reject", u, p, body, "save", <<products[p]>>, <<>>)

RejectSave(r) ==
    LET s == req[r]
        loaded == s.doc[1] IN
    /\ s.kind = "reject" /\ s.pc = "save"
    /\ products' = [products EXCEPT ![s.id] =
                        SaveDoc(@, loaded, RejectModify(loaded, s.body), {})]
    /\ Finish(r, "ok")
    /\ UNCHANGED <<orders, started>>

(* ---------------------------- adminReview ----------------------------- *)
\* The handler loads the product by id alone and goes on to the save whatever
\* the status it finds.
MainCategoryOf(gender) ==
    IF gender = "male" THEN "Men"
    ELSE IF gender = "female" THEN "Women"
    ELSE IF gender = "kids" THEN "Kids"
    ELSE "Unisex"

Truthy(tag) == tag # "none" /\ tag # ""

TagsOf(doc) ==
    SelectSeq(<<doc.brand, doc.article, doc.gender, doc.ai_analysis.image_analysis.quality>>
                  \o doc.ai_analysis.image_analysis.features,
              Truthy)

ApprovedReview(body, caller) ==
    [final_price |-> body.final_price,
     mrp |-> body.mrp,
     discount_percentage |-> body.discount_percentage,
     pricing_type |-> IF body.pricing_type = "none" THEN "fixed" ELSE body.pricing_type,
     admin_notes |-> Notes("", body.admin_notes),
     reviewed_by |-> caller]

ListedProduct(doc, body) ==
    [title |-> <<doc.brand, " ", doc.article>>,
     description |-> <<doc.ai_analysis.image_analysis.caption, ". ",
                       doc.ai_analysis.price_suggestion.reasoning>>,
     price |-> body.final_price,
     mrp |-> body.mrp,
     discount_percentage |-> body.discount_percentage,
     category |-> doc.category,
     tags |-> TagsOf(doc),
     mainCategory |-> MainCategoryOf(doc.gender)]

RejectedReview(body, caller) ==
    [EmptyReview EXCEPT !.admin_notes = Notes("", body.admin_notes), !.reviewed_by = caller]

ReviewModify(doc, body, caller) ==
    IF body.action = "approve"
      THEN [doc EXCEPT !.status = "listed",
                       !.admin_review = <<ApprovedReview(body, caller)>>,
                       !.mainCategory = MainCategoryOf(doc.gender),
                       !.listed_product = <<ListedProduct(doc, body)>>]
      ELSE [doc EXCEPT !.status = "rejected",
                       !.admin_review = <<RejectedReview(body, caller)>>]

\* reviewed_at and listed_at are new Date(): these two paths are always sent.
ReviewAlways(body) ==
    IF body.action = "approve" THEN {"admin_review", "listed_product"} ELSE {"admin_review"}

AdminReviewAnyPrice(r, u, p, action, final_price, mrp, discount_percentage, notes) ==
    LET body == [NoBody EXCEPT !.action = action, !.final_price = final_price,
                               !.mrp = mrp, !.discount_percentage = discount_percentage,
                               !.admin_notes = notes] IN
    /\ CanStart(r)
    /\ started' = started + 1
    /\ UNCHANGED <<products, orders>>
    /\ IF ~IsAdmin(u)
         THEN Respond(r, "review", u, p, body, "Forbidden")
         ELSE IF action \notin {"approve", "reject"}
           THEN Respond(r, "review", u, p, body, "ValidationError")
           ELSE IF ~ProductExists(p)
             THEN Respond(r, "review", u, p, body, "NotFound")
             ELSE Begin(r, "review", u, p, body, "save", <<products[p]>>, <<>>)

AdminReview(r, u, p, action, final_price, mrp, discount_percentage, notes) ==
    LET body == [NoBody EXCEPT !.action = action, !.final_price = final_price,
                               !.mrp = mrp, !.discount_percentage = discount_percentage,
                               !.admin_notes = notes] IN
    /\ CanStart(r)
    /\ started' = started + 1
    /\ UNCHANGED <<products, orders>>
    /\ IF ~IsAdmin(u)
         THEN Respond(r, "review", u, p, body, "Forbidden")
         ELSE IF action \notin {"approve", "reject"}
           THEN Respond(r, "review", u, p, body, "ValidationError")
           ELSE IF ~ProductExists(p)
             THEN Respond(r, "review", u, p, body, "NotFound")
             ELSE IF action = "approve" /\ final_price <= 0
               THEN Respond(r, "review", u, p, body, "ValidationError")
               ELSE Begin(r, "review", u, p, body, "save", <<products[p]>>, <<>>)

ReviewSave(r) ==
    LET s == req[r]
        loaded == s.doc[1] IN
    /\ s.kind = "review" /\ s.pc = "save"
    /\ products' = [products EXCEPT ![s.id] =
                        SaveDoc(@, loaded, ReviewModify(loaded, s.body, s.caller),
                                ReviewAlways(s.body))]
    /\ Finish(r, "ok")
    /\ UNCHANGED <<orders, started>>

(* ----------------------------- editPrice ------------------------------ *)
\* Math.round of 100 * num / den for a positive quotient.
RoundPercent(num, den) == (200 * num + den) \div (2 * den)

DiscountOf(price, mrp) ==
    IF mrp # 0 /\ mrp > price THEN RoundPercent(mrp - price, mrp) ELSE 0

EditReview(admin_review, body) ==
    IF admin_review = <<>> THEN admin_review
    ELSE <<[admin_review[1] EXCEPT !.final_price = body.price,
                                   !.mrp = body.mrp,
                                   !.discount_percentage = DiscountOf(body.price, body.mrp)]>>

EditListedMrpOnly(listed_product, body) ==
    IF listed_product = <<>> THEN listed_product
    ELSE <<[listed_product[1] EXCEPT !.mrp = body.mrp,
                                     !.discount_percentage = DiscountOf(body.price, body.mrp)]>>

EditListed(listed_product, body) ==
    IF listed_product = <<>> THEN listed_product
    ELSE <<[listed_product[1] EXCEPT !.price = body.price,
                                     !.mrp = body.mrp,
                                     !.discount_percentage = DiscountOf(body.price, body.mrp)]>>

EditModify(doc, body) ==
    [doc EXCEPT !.admin_review = EditReview(@, body),
                !.listed_product = EditListed(@, body)]

\* The fields of a nested object are separate paths of the save.
SaveNested(cur, loaded, mod) ==
    IF mod = loaded \/ cur = <<>> THEN cur
    ELSE <<[f \in DOMAIN cur[1] |->
               IF mod[1][f] # loaded[1][f] THEN mod[1][f] ELSE cur[1][f]]>>

SaveEdit(cur, loaded, mod) ==
    [cur EXCEPT !.admin_review = SaveNested(@, loaded.admin_review, mod.admin_review),
                !.listed_product = SaveNested(@, loaded.listed_product, mod.listed_product)]

EditPriceAnyStatus(r, u, p, price, mrp) ==
    LET body == [NoBody EXCEPT !.price = price, !.mrp = mrp] IN
    /\ CanStart(r)
    /\ started' = started + 1
    /\ UNCHANGED <<products, orders>>
    /\ IF ~IsAdmin(u)
         THEN Respond(r, "edit", u, p, body, "Forbidden")
         ELSE IF price <= 0
           THEN Respond(r, "edit", u, p, body, "ValidationError")
           ELSE IF ~ProductExists(p)
             THEN Respond(r, "edit", u, p, body, "NotFound")
             ELSE Begin(r, "edit", u, p, body, "save", <<products[p]>>, <<>>)

EditPrice(r, u, p, price, mrp) ==
    LET body == [NoBody EXCEPT !.price = price, !.mrp = mrp] IN
    /\ CanStart(r)
    /\ started' = started + 1
    /\ UNCHANGED <<products, orders>>
    /\ IF ~IsAdmin(u)
         THEN Respond(r, "edit", u, p, body, "Forbidden")
         ELSE IF price <= 0
           THEN Respond(r, "edit", u, p, body, "ValidationError")
           ELSE IF ~ProductExists(p)
             THEN Respond(r, "edit", u, p, body, "NotFound")
             ELSE IF products[p].status # "listed"
               THEN Respond(r, "edit", u, p, body, "InvalidState")
               ELSE Begin(r, "edit", u, p, body, "save", <<products[p]>>, <<>>)

EditSave(r) ==
    LET s == req[r]
        loaded == s.doc[1] IN
    /\ s.kind = "edit" /\ s.pc = "save"
    /\ products' = [products EXCEPT ![s.id] = SaveEdit(@, loaded, EditModify(loaded, s.body))]
    /\ Finish(r, "ok")
    /\ UNCHANGED <<orders, started>>

(* ------------------------- createOrderSession ------------------------- *)
\* A JavaScript number is NaN or, in this model, an integer.
NaN == [nan |-> TRUE, n |-> 0]

Num(n) == [nan |-> FALSE, n |-> n]

Plus(a, b) == IF a.nan \/ b.nan THEN NaN ELSE Num(a.n + b.n)

Times(a, b) == IF a.nan \/ b.nan THEN NaN ELSE Num(a.n * b.n)

\* A price is a string, here the sequence of its characters; Rupee is the
\* currency sign.
Rupee == "rupee"

Digits == <<"0", "1", "2", "3", "4", "5", "6", "7", "8", "9">>

IsDigit(c) == \E d \in DOMAIN Digits : Digits[d] = c

DigitOf(c) == (CHOOSE d \in DOMAIN Digits : Digits[d] = c) - 1

\* String.prototype.replace(c, ''): the first occurrence of c is removed.
Replace(str, c) ==
    IF \E i \in DOMAIN str : str[i] = c
      THEN LET i == CHOOSE k \in DOMAIN str : str[k] = c /\ \A j \in 1..(k - 1) : str[j] # c
           IN  SubSeq(str, 1, i - 1) \o SubSeq(str, i + 1, Len(str))
      ELSE str

RECURSIVE LeadingDigits(_, _)
LeadingDigits(str, acc) ==
    IF str = <<>> \/ ~IsDigit(Head(str)) THEN acc
    ELSE LeadingDigits(Tail(str), 10 * acc + DigitOf(Head(str)))

\* parseFloat of a string without blanks or a fraction: an optional sign and
\* the leading digits, NaN when no digit leads.
parseFloat(str) ==
    LET negative == str # <<>> /\ Head(str) = "-"
        unsigned == IF negative THEN Tail(str) ELSE str
    IN  IF unsigned = <<>> \/ ~IsDigit(Head(unsigned)) THEN NaN
        ELSE Num((IF negative THEN -1 ELSE 1) * LeadingDigits(unsigned, 0))

\* parseFloat((item.price || '0').replace(Rupee, '')) * (item.quantity || 1)
ItemTotal(item) ==
    Times(parseFloat(Replace(IF item.price = <<>> THEN <<"0">> ELSE item.price, Rupee)),
          Num(IF item.quantity = 0 THEN 1 ELSE item.quantity))

\* cart.reduce over the items, which all carry the same price and quantity.
RECURSIVE cartSubtotal(_, _, _)
cartSubtotal(cart, item, acc) ==
    IF cart = {} THEN acc
    ELSE LET i == CHOOSE x \in cart : TRUE
         IN  cartSubtotal(cart \ {i}, item, Plus(acc, ItemTotal(item)))

\* Math.abs(frontendAmount - expectedAmount) > 1, false when either is NaN.
OffByMoreThanOne(a, b) ==
    /\ ~a.nan /\ ~b.nan
    /\ (a.n - b.n > 1 \/ b.n - a.n > 1)

\* amount 0 is a missing (or zero) client amount.
finalAmount(amount, expectedAmount) ==
    IF amount = 0 \/ OffByMoreThanOne(Num(amount), expectedAmount)
      THEN expectedAmount ELSE Num(amount)

\* The gateway issues a fresh order reference; the cart is stored as sent.
\* The gateway and the Order schema both refuse an amount that is NaN.
CreateOrder(r, u, cart, item, amount) ==
    LET body == [NoBody EXCEPT !.cart = cart, !.item = item, !.amount = amount]
        subtotal == cartSubtotal(cart, item, Num(0))
        final == finalAmount(amount, Plus(subtotal, Num(29)))
    IN  /\ CanStart(r)
        /\ started' = started + 1
        /\ UNCHANGED products
        /\ IF cart = {} \/ (~subtotal.nan /\ subtotal.n <= 0)
             THEN /\ Respond(r, "create", u, 0, body, "ValidationError")
                  /\ UNCHANGED orders
             ELSE IF final.nan
             THEN /\ Respond(r, "create", u, 0, body, "ServerError")
                  /\ UNCHANGED orders
             ELSE /\ Len(orders) < MaxOrders
                  /\ orders' = Append(orders, NewOrder(u, cart, final.n, Len(orders) + 1))
                  /\ Respond(r, "create", u, Len(orders) + 1, body, "ok")

(* --------------------------- verifyPayment ---------------------------- *)
FindOrderByRazorpayId(order_id) ==
    {o \in DOMAIN orders : orders[o].razorpayOrderId = order_id}

SignatureIgnored(order_id, payment_id, signature) == TRUE

SignatureMatches(order_id, payment_id, signature) == Hmac(order_id, payment_id) = signature

PayOrderOnce(order, payment_id) ==
    IF order.status = "paid" THEN order
    ELSE [order EXCEPT !.status = "paid", !.razorpayPaymentId = payment_id]

PayOrder(order, payment_id) ==
    [order EXCEPT !.status = "paid", !.razorpayPaymentId = payment_id]

ValidObjectIds(cart) == {id \in cart : IsValidObjectId(id)}

\* Product.updateMany({_id: {$in: ids}}, {status: 'sold'})
MarkSoldFilter(p, ids) == Oid(p) \in ids

MarkSoldListedOnly(ids) ==
    [p \in DOMAIN products |->
        IF MarkSoldFilter(p, ids) /\ products[p].status = "listed"
          THEN [products[p] EXCEPT !.status = "sold"] ELSE products[p]]

\* An update document without $set replaces the documents it matches.
MarkSoldReplacesDocument(ids) ==
    [p \in DOMAIN products |->
        IF MarkSoldFilter(p, ids)
          THEN [products[p] EXCEPT !.status = "sold", !.seller = "none",
                                   !.listed_product = <<>>]
          ELSE products[p]]

MarkSold(ids) ==
    [p \in DOMAIN products |->
        IF MarkSoldFilter(p, ids) THEN [products[p] EXCEPT !.status = "sold"] ELSE products[p]]

Matched(ids) == Cardinality({p \in DOMAIN products : MarkSoldFilter(p, ids)})

Modified(ids) ==
    Cardinality({p \in DOMAIN products : MarkSoldFilter(p, ids) /\ products[p].status # "sold"})

VerifyPaymentUpserts(r, order_id, payment_id, signature) ==
    LET body == [NoBody EXCEPT !.payment_id = payment_id, !.signature = signature] IN
    /\ CanStart(r)
    /\ started' = started + 1
    /\ UNCHANGED products
    /\ IF ~SignatureMatches(order_id, payment_id, signature)
         THEN /\ Respond(r, "verify", "none", order_id, body, "SignatureInvalid")
              /\ UNCHANGED orders
         ELSE IF FindOrderByRazorpayId(order_id) = {}
           THEN /\ orders' = Append(orders, PayOrder(NewOrder("none", {}, 0, order_id),
                                                      payment_id))
                /\ Respond(r, "verify", "none", order_id, body, "ok")
           ELSE /\ Begin(r, "verify", "none", order_id, body, "v_update", <<>>,
                         <<orders[CHOOSE o \in FindOrderByRazorpayId(order_id) : TRUE]>>)
                /\ UNCHANGED orders

VerifyPayment(r, order_id, payment_id, signature) ==
    LET body == [NoBody EXCEPT !.payment_id = payment_id, !.signature = signature] IN
    /\ CanStart(r)
    /\ started' = started + 1
    /\ UNCHANGED <<products, orders>>
    /\ IF ~SignatureMatches(order_id, payment_id, signature)
         THEN Respond(r, "verify", "none", order_id, body, "SignatureInvalid")
         ELSE IF FindOrderByRazorpayId(order_id) = {}
           THEN Respond(r, "verify", "none", order_id, body, "OrderNotFound")
           ELSE Begin(r, "verify", "none", order_id, body, "v_update", <<>>,
                      <<orders[CHOOSE o \in FindOrderByRazorpayId(order_id) : TRUE]>>)

VerifyUpdateRejectsPaid(r) ==
    LET s == req[r] IN
    /\ s.kind = "verify" /\ s.pc = "v_update"
    /\ IF \E o \in FindOrderByRazorpayId(s.id) : orders[o].status = "paid"
         THEN /\ Finish(r, "InvalidState")
              /\ UNCHANGED orders
         ELSE /\ orders' = [o \in DOMAIN orders |->
                              IF o \in FindOrderByRazorpayId(s.id)
                                THEN PayOrder(orders[o], s.body.payment_id) ELSE orders[o]]
              /\ IF ValidObjectIds(s.ord[1].cart) = {}
                   THEN Finish(r, "ok")
                   ELSE /\ req' = [req EXCEPT ![r].pc = "v_mark"]
                        /\ UNCHANGED last
    /\ UNCHANGED <<products, started>>

VerifyUpdate(r) ==
    LET s == req[r] IN
    /\ s.kind = "verify" /\ s.pc = "v_update"
    /\ orders' = [o \in DOMAIN orders |->
                     IF o \in FindOrderByRazorpayId(s.id)
                       THEN PayOrder(orders[o], s.body.payment_id) ELSE orders[o]]
    /\ IF ValidObjectIds(s.ord[1].cart) = {}
         THEN Finish(r, "ok")
         ELSE /\ req' = [req EXCEPT ![r].pc = "v_mark"]
              /\ UNCHANGED last
    /\ UNCHANGED <<products, started>>

\* The store fails the order update: the handler's catch answers 500 and
\* the order is as it was.
VerifyUpdateFails(r) ==
    LET s == req[r] IN
    /\ s.kind = "verify" /\ s.pc = "v_update"
    /\ Finish(r, "ServerError")
    /\ UNCHANGED <<products, orders, started>>

VerifyMarkRequiresModified(r) ==
    LET s == req[r]
        ids == ValidObjectIds(s.ord[1].cart) IN
    /\ s.kind = "verify" /\ s.pc = "v_mark"
    /\ products' = MarkSold(ids)
    /\ req' = [req EXCEPT ![r] = Idle]
    /\ last' = Answer(s, IF Modified(ids) = Matched(ids) THEN "ok" ELSE "ServerError",
                      Matched(ids), Modified(ids))
    /\ UNCHANGED <<orders, started>>

\* The read-back of the products that follows the updateMany is only logged
\* and the answer that follows it is already settled, so the handler answers
\* in the step of the updateMany.
VerifyMark(r) ==
    LET s == req[r]
        ids == ValidObjectIds(s.ord[1].cart) IN
    /\ s.kind = "verify" /\ s.pc = "v_mark"
    /\ products' = MarkSold(ids)
    /\ req' = [req EXCEPT ![r] = Idle]
    /\ last' = Answer(s, "ok", Matched(ids), Modified(ids))
    /\ UNCHANGED <<orders, started>>

VerifyMarkFailsRollsBack(r) ==
    LET s == req[r] IN
    /\ s.kind = "verify" /\ s.pc = "v_mark"
    /\ orders' = [o \in DOMAIN orders |->
                     IF o \in FindOrderByRazorpayId(s.id)
                       THEN [orders[o] EXCEPT !.status = "created",
                                              !.razorpayPaymentId = "none"]
                       ELSE orders[o]]
    /\ Finish(r, "ServerError")
    /\ UNCHANGED <<products, started>>

\* The store fails the updateMany: the handler's catch answers 500.
VerifyMarkFails(r) ==
    LET s == req[r] IN
    /\ s.kind = "verify" /\ s.pc = "v_mark"
    /\ Finish(r, "ServerError")
    /\ UNCHANGED <<products, orders, started>>

(* ----------------------- admin complete-order ------------------------- *)
ManualPayment == "manual_verification"

\* Mongoose casts every element of an $in on _id to an ObjectId and throws
\* a CastError for one that is not an ObjectId.
Castable(ids) == \A id \in ids : IsValidObjectId(id)

CompleteOrder(r, u, o) ==
    /\ CanStart(r)
    /\ started' = started + 1
    /\ UNCHANGED <<products, orders>>
    /\ IF ~IsAdmin(u)
         THEN Respond(r, "complete", u, o, NoBody, "Forbidden")
         ELSE IF ~OrderExists(o)
           THEN Respond(r, "complete", u, o, NoBody, "NotFound")
           ELSE IF orders[o].status = "paid"
             THEN Respond(r, "complete", u, o, NoBody, "InvalidState")
             ELSE Begin(r, "complete", u, o, NoBody, "c_update", <<>>, <<orders[o]>>)

CompleteUpdate(r) ==
    LET s == req[r] IN
    /\ s.kind = "complete" /\ s.pc = "c_update"
    /\ orders' = [orders EXCEPT ![s.id] = PayOrder(@, ManualPayment)]
    /\ req' = [req EXCEPT ![r].pc = "c_mark"]
    /\ UNCHANGED <<products, last, started>>

CompleteMark(r) ==
    LET s == req[r]
        ids == s.ord[1].cart IN
    /\ s.kind = "complete" /\ s.pc = "c_mark"
    /\ IF Castable(ids)
         THEN /\ products' = MarkSold(ids)
              /\ req' = [req EXCEPT ![r] = Idle]
              /\ last' = Answer(s, "ok", Matched(ids), Modified(ids))
         ELSE /\ Finish(r, "ServerError")
              /\ UNCHANGED products
    /\ UNCHANGED <<orders, started>>

(* --------------------------- listing queries -------------------------- *)
ListedOrSoldFilter(doc) == doc.status \in {"listed", "sold"}

ListedFilter(doc) == doc.status = "listed"

SoldFilter(doc) == doc.status = "sold"

PendingFilter(doc) == doc.status = "approved"

Find(Filter(_)) == {p \in DOMAIN products : Filter(products[p])}

Listing(kind, u, result) ==
    [NoResponse EXCEPT !.kind = kind, !.caller = u, !.resp = "ok", !.result = result]

ListedPublic(r) ==
    /\ CanStart(r)
    /\ started' = started + 1
    /\ last' = Listing("listed-public", "none", Find(ListedFilter))
    /\ UNCHANGED <<products, orders, req>>

AdminQuery(r, u, kind, result) ==
    /\ CanStart(r)
    /\ started' = started + 1
    /\ IF ~IsAdmin(u)
         THEN Respond(r, kind, u, 0, NoBody, "Forbidden")
         ELSE /\ last' = Listing(kind, u, result)
              /\ UNCHANGED req
    /\ UNCHANGED <<products, orders>>

AdminListed(r, u) == AdminQuery(r, u, "admin-listed", Find(ListedFilter))

AdminSold(r, u) == AdminQuery(r, u, "admin-sold", Find(SoldFilter))

AdminPending(r, u) == AdminQuery(r, u, "admin-pending", Find(PendingFilter))

(* ------------------------------ inputs -------------------------------- *)
ProductIds == 1..MaxProducts

Uploads == {"none", "gif", "unreadable", "jpeg"}

\* analyzeProduct throws, returns an analysis, returns one with score 0.
Analyses == {<<>>, <<TheAnalysis>>, <<UnsureAnalysis>>}

\* The owner of every product and a second user who owns none.
SellerCallers == {"alice", "bob"}

\* The administrator and a user who is not.
AdminCallers == {"admin", "bob"}

Details == {"none", "given"}

Reasons == {"none", "too low"}

\* action, final_price, mrp and discount_percentage of a review request; 0 is
\* a missing or zero number.
ReviewRequests ==
    {<<"approve", 0, 0, 0>>, <<"approve", -50, 0, 0>>, <<"approve", 100, 0, 0>>,
     <<"approve", 100, 400, 10>>, <<"reject", 0, 0, 0>>, <<"archive", 100, 0, 0>>}

\* price and mrp of an edit-price request; 0 is a missing or zero value.
EditRequests == {<<0, 0>>, <<-50, 0>>, <<200, 0>>, <<100, 400>>}

Buyers == {"bob"}

Carts ==
    {{}, {StaticId}} \cup {{Oid(p)} : p \in ProductIds}
        \cup {{Oid(p), StaticId} : p \in ProductIds}

\* The price and quantity the shop front sends for an item.
ListedItem == [price |-> <<Rupee, "1", "0", "0">>, quantity |-> 1]

OrderRefs == 1..MaxOrders

PaymentIds == {"pay_1"}

\* The signature of the confirmation and one that is not.
Signatures(order_id, payment_id) == {Hmac(order_id, payment_id), ForgedSignature}

Next ==
    \E r \in Slots :
        \/ \E u \in Sellers, images \in Uploads, analysis \in Analyses :
              Submit(r, u, images, analysis) /\ UNCHANGED <<ai, user, otps, clock>>
        \/ \E u \in SellerCallers, p \in ProductIds, pd \in Details, pay \in Details :
              AcceptOffer(r, u, p, pd, pay) /\ UNCHANGED <<ai, user, otps, clock>>
        \/ AcceptSave(r) /\ UNCHANGED <<ai, user, otps, clock>>
        \/ \E u \in SellerCallers, p \in ProductIds, reason \in Reasons :
              RejectOffer(r, u, p, reason) /\ UNCHANGED <<ai, user, otps, clock>>
        \/ RejectSave(r) /\ UNCHANGED <<ai, user, otps, clock>>
        \/ \E u \in AdminCallers, p \in ProductIds, rq \in ReviewRequests :
              AdminReview(r, u, p, rq[1], rq[2], rq[3], rq[4], "none") /\ UNCHANGED <<ai, user, otps, clock>>
        \/ ReviewSave(r) /\ UNCHANGED <<ai, user, otps, clock>>
        \/ \E u \in AdminCallers, p \in ProductIds, rq \in EditRequests :
              EditPrice(r, u, p, rq[1], rq[2]) /\ UNCHANGED <<ai, user, otps, clock>>
        \/ EditSave(r) /\ UNCHANGED <<ai, user, otps, clock>>
        \/ \E u \in Buyers, cart \in Carts :
              CreateOrder(r, u, cart, ListedItem, 0) /\ UNCHANGED <<ai, user, otps, clock>>
        \/ \E o \in OrderRefs, pay \in PaymentIds :
              \E sig \in Signatures(o, pay) : VerifyPayment(r, o, pay, sig) /\ UNCHANGED <<ai, user, otps, clock>>
        \/ VerifyUpdate(r) /\ UNCHANGED <<ai, user, otps, clock>>
        \/ VerifyUpdateFails(r) /\ UNCHANGED <<ai, user, otps, clock>>
        \/ VerifyMark(r) /\ UNCHANGED <<ai, user, otps, clock>>
        \/ VerifyMarkFails(r) /\ UNCHANGED <<ai, user, otps, clock>>
        \/ \E u \in AdminCallers, o \in OrderRefs : CompleteOrder(r, u, o) /\ UNCHANGED <<ai, user, otps, clock>>
        \/ CompleteUpdate(r) /\ UNCHANGED <<ai, user, otps, clock>>
        \/ CompleteMark(r) /\ UNCHANGED <<ai, user, otps, clock>>
        \/ ListedPublic(r) /\ UNCHANGED <<ai, user, otps, clock>>
        \/ \E u \in AdminCallers : AdminListed(r, u) /\ UNCHANGED <<ai, user, otps, clock>>
        \/ \E u \in AdminCallers : AdminSold(r, u) /\ UNCHANGED <<ai, user, otps, clock>>
        \/ \E u \in AdminCallers : AdminPending(r, u) /\ UNCHANGED <<ai, user, otps, clock>>

Spec == Init /\ [][Next]_vars

(* -------------------------- pricing pipeline -------------------------- *)
\* Strings that the pipeline inspects are sequences of characters; "" and an
\* undefined string are both <<>>.  Confidence scores are in tenths (6 is
\* 0.6), classifier scores in hundredths (55 is 0.55).
Nike == <<"N", "i", "k", "e">>

NikeUpper == <<"N", "I", "K", "E">>

Zara == <<"Z", "a", "r", "a">>

LowerChar(c) ==
    CASE c = "N" -> "n" [] c = "I" -> "i" [] c = "K" -> "k" [] c = "E" -> "e"
      [] c = "Z" -> "z" [] OTHER -> c

ToLowerCase(str) == [i \in 1..Len(str) |-> LowerChar(str[i])]

Includes(str, sub) ==
    \E i \in 0..(Len(str) - Len(sub)) : SubSeq(str, i + 1, i + Len(sub)) = sub

\* Math.round of a positive avg * 0.5.
RoundHalf(avg) == (avg + 1) \div 2

NoDetails == [brand |-> <<>>, category |-> "none"]

FallbackBaseOnly(productDetails, serpPrices) ==
    [suggested_price |-> 500,
     reasoning |->
         "Based on standard market rates for second-hand clothing (typically 40-60% of new price)",
     market_comparison |-> "Similar to other pre-owned items in the market",
     confidence_score |-> 6,
     factors |-> <<"brand reputation", "general condition", "market demand">>]

fallbackPriceSuggestion(productDetails, serpPrices) ==
    LET basePrice ==
            IF serpPrices # <<>> /\ serpPrices[1].avg # 0
              THEN RoundHalf(serpPrices[1].avg)
              ELSE IF Includes(ToLowerCase(productDetails.brand), <<"n", "i", "k", "e">>)
                THEN 800
                ELSE 500
    IN [suggested_price |-> basePrice,
        reasoning |->
            "Based on standard market rates for second-hand clothing (typically 40-60% of new price)",
        market_comparison |-> "Similar to other pre-owned items in the market",
        confidence_score |-> 6,
        factors |-> <<"brand reputation", "general condition", "market demand">>]

\* The text of the reasoning signal's answer: without a {...} match, with one
\* that JSON.parse rejects, or with one that parses to the object parsed.
\* A field the object lacks is 0, "none" or <<>> (an optional list).
parseGeminiResponse(response) ==
    IF response.text = "json"
      THEN LET parsed == response.parsed IN
           [suggested_price |->
                IF parsed.suggested_price # 0 THEN parsed.suggested_price ELSE 500,
            reasoning |->
                IF parsed.reasoning # "none" THEN parsed.reasoning
                ELSE "Based on market analysis",
            market_comparison |->
                IF parsed.market_comparison # "none" THEN parsed.market_comparison
                ELSE "Comparable to similar items",
            confidence_score |->
                IF parsed.confidence_score # 0 THEN parsed.confidence_score ELSE 7,
            factors |->
                IF parsed.factors # <<>> THEN parsed.factors[1]
                ELSE <<"brand", "condition", "market demand">>]
      ELSE fallbackPriceSuggestion(NoDetails, <<>>)

localImageAnalysis(userCategory) ==
    [caption |-> "Clothing item in good condition", quality |-> "good",
     category |-> userCategory, brand_detected |-> <<>>, colors_detected |-> <<>>,
     condition_score |-> 7, features |-> <<"standard clothing item">>]

QualityOf(score) ==
    IF score > 80 THEN "excellent"
    ELSE IF score > 60 THEN "good"
    ELSE IF score > 40 THEN "fair"
    ELSE "poor"

\* hfResult?.[0]?.label || 'unknown' and hfResult?.[0]?.score || 0.5
LabelOf(hfResult) == IF hfResult.label # "none" THEN hfResult.label ELSE "unknown"

ScoreOf(hfResult) == IF hfResult.score # 0 THEN hfResult.score ELSE 50

\* Math.round(score * 10)
ConditionScoreOf(score) == (score + 5) \div 10

generateFinalRecommendation(imageAnalysis, priceSuggestion) ==
    IF priceSuggestion.confidence_score > 8
      THEN [confidence |-> "High", price |-> priceSuggestion.suggested_price,
            text |-> priceSuggestion.reasoning]
      ELSE IF priceSuggestion.confidence_score > 6
        THEN [confidence |-> "Moderate", price |-> priceSuggestion.suggested_price,
              text |-> "Consider admin review for final pricing."]
        ELSE [confidence |-> "Low", price |-> priceSuggestion.suggested_price,
              text |-> "Requires admin review and manual pricing."]

UserCondition(quality) ==
    CASE quality = "excellent" -> "Excellent"
      [] quality = "good" -> "Good"
      [] quality = "fair" -> "Fair"
      [] quality = "poor" -> "Poor"
      [] OTHER -> "Good"

NoGemini ==
    [text |-> "none",
     parsed |-> [suggested_price |-> 0, reasoning |-> "none", market_comparison |-> "none",
                 confidence_score |-> 0, factors |-> <<>>]]

\* A run of analyzeProduct that has been called with the declared details.
StartAnalysis(brand, category) ==
    [pc |-> "classify", details |-> [brand |-> brand, category |-> category],
     classifier |-> "none", ocr |-> "none", detectedBrand |-> <<>>, detectedColors |-> <<>>,
     hfResult |-> <<>>, imageAnalysis |-> <<>>, brandForPricing |-> <<>>,
     serpPrices |-> <<>>, reasoning |-> "none", gemini |-> NoGemini,
     priceSuggestion |-> <<>>, result |-> <<>>]

Analyzing == ai.pc \notin {"idle", "done", "raised"}

Marketplace == UNCHANGED <<products, orders, req, last, started, user, otps, clock>>

analyzeImageWithHuggingFace(hfResult) ==
    /\ ai.pc = "classify"
    /\ ai' = [ai EXCEPT !.pc = "ocr", !.classifier = "ok", !.hfResult = <<hfResult>>]
    /\ Marketplace

\* The classifier throws: the inner catch takes the local analysis and the
\* brand and colour detection of the try block are skipped.
HuggingFaceFails ==
    /\ ai.pc = "classify"
    /\ ai' = [ai EXCEPT !.pc = "serp", !.classifier = "failed",
                        !.imageAnalysis = <<localImageAnalysis(ai.details.category)>>]
    /\ Marketplace

\* detectBrandWithOCR answers a brand of its list or null; its own catch
\* turns a failure into null.
detectBrandWithOCR(outcome) ==
    /\ ai.pc = "ocr"
    /\ ai' = [ai EXCEPT !.pc = "colors", !.ocr = outcome.signal,
                        !.detectedBrand = IF outcome.signal = "ok" THEN outcome.brand
                                          ELSE <<>>]
    /\ Marketplace

detectColorsWithVision(detectedColors) ==
    LET hf == ai.hfResult[1]
        score == ScoreOf(hf) IN
    /\ ai.pc = "colors"
    /\ ai' = [ai EXCEPT !.pc = "serp", !.detectedColors = detectedColors,
                        !.imageAnalysis =
                            <<[caption |-> <<"Detected as: ", LabelOf(hf)>>,
                               quality |-> QualityOf(score),
                               category |-> ai.details.category,
                               brand_detected |-> ai.detectedBrand,
                               colors_detected |-> detectedColors,
                               condition_score |-> ConditionScoreOf(score),
                               features |-> <<LabelOf(hf)>>]>>]
    /\ Marketplace

BrandForPricing(detectedBrand, brand) == IF detectedBrand # <<>> THEN detectedBrand ELSE brand

\* fetchSerpPrice answers a price reference or null; its own catch turns a
\* failure into null.
fetchSerpPrice(serpPrices) ==
    /\ ai.pc = "serp"
    /\ ai' = [ai EXCEPT !.pc = "price", !.serpPrices = serpPrices,
                        !.brandForPricing = BrandForPricing(ai.detectedBrand, ai.details.brand)]
    /\ Marketplace

AnalysisResult(imageAnalysis, priceSuggestion, serpPrices, brandForPricing) ==
    [image_analysis |-> imageAnalysis,
     price_suggestion |-> priceSuggestion,
     final_recommendation |-> generateFinalRecommendation(imageAnalysis, priceSuggestion),
     user_report |->
         [condition |-> UserCondition(imageAnalysis.quality),
          suggested_price |-> priceSuggestion.suggested_price,
          market_comparison |->
              IF serpPrices # <<>>
                THEN <<[brand |-> brandForPricing, category |-> imageAnalysis.category,
                        min |-> serpPrices[1].min, max |-> serpPrices[1].max]>>
                ELSE <<>>]]

SuggestionFor(response) ==
    IF response.text \in {"nokey", "error"}
      THEN fallbackPriceSuggestion([ai.details EXCEPT !.brand = ai.brandForPricing],
                                   ai.serpPrices)
      ELSE parseGeminiResponse(response)

suggestPriceWithSerpRaises(response) ==
    /\ ai.pc = "price"
    /\ ai' = IF response.text = "error"
               THEN [ai EXCEPT !.pc = "raised", !.reasoning = response.text,
                               !.gemini = response]
               ELSE [ai EXCEPT !.pc = "done", !.reasoning = response.text,
                               !.gemini = response,
                               !.priceSuggestion = <<SuggestionFor(response)>>,
                               !.result = <<AnalysisResult(ai.imageAnalysis[1],
                                                           SuggestionFor(response),
                                                           ai.serpPrices,
                                                           ai.brandForPricing)>>]
    /\ Marketplace

\* The reasoning signal is not configured, fails, or answers a text; the
\* recommendation and the report follow in the same step.
suggestPriceWithSerp(response) ==
    /\ ai.pc = "price"
    /\ ai' = [ai EXCEPT !.pc = "done", !.reasoning = response.text, !.gemini = response,
                        !.priceSuggestion = <<SuggestionFor(response)>>,
                        !.result = <<AnalysisResult(ai.imageAnalysis[1],
                                                    SuggestionFor(response),
                                                    ai.serpPrices,
                                                    ai.brandForPricing)>>]
    /\ Marketplace

(* --------------------------- pipeline inputs -------------------------- *)
DeclaredBrands == {Nike, NikeUpper, Zara, <<>>}

\* label and score of the classifier's first result; "none" and 0 are missing.
HfResults ==
    {[label |-> "jersey", score |-> 95], [label |-> "jersey", score |-> 55],
     [label |-> "shirt", score |-> 3], [label |-> "none", score |-> 0]}

OcrOutcomes ==
    {[signal |-> "failed", brand |-> <<>>], [signal |-> "ok", brand |-> <<>>],
     [signal |-> "ok", brand |-> Nike]}

ColorOutcomes == {<<>>, <<"Black">>}

SerpOutcomes ==
    {<<>>, <<[min |-> 1000, max |-> 2000, avg |-> 1500]>>,
     <<[min |-> 999, max |-> 999, avg |-> 999]>>}

FullAnswer ==
    [suggested_price |-> 1200, reasoning |-> "model reasoning",
     market_comparison |-> "model comparison", confidence_score |-> 9,
     factors |-> <<<<"brand", "wear">>>>]

ParsedAnswers ==
    {FullAnswer,
     [FullAnswer EXCEPT !.suggested_price = 0],
     [FullAnswer EXCEPT !.reasoning = "none"],
     [FullAnswer EXCEPT !.market_comparison = "none"],
     [FullAnswer EXCEPT !.confidence_score = 0],
     [FullAnswer EXCEPT !.confidence_score = 50],
     [FullAnswer EXCEPT !.factors = <<>>],
     NoGemini.parsed}

GeminiOutcomes ==
    {[NoGemini EXCEPT !.text = t] : t \in {"nokey", "error", "nojson", "badjson"}}
        \cup {[text |-> "json", parsed |-> p] : p \in ParsedAnswers}

AnalysisInit ==
    /\ products = <<>>
    /\ orders = <<>>
    /\ req = [r \in Slots |-> Idle]
    /\ last = NoResponse
    /\ started = 0
    /\ ai \in {StartAnalysis(brand, "Tops") : brand \in DeclaredBrands}
    /\ user = NewUser
    /\ otps = <<>>
    /\ clock = 0

AnalysisNext ==
    \/ \E hfResult \in HfResults : analyzeImageWithHuggingFace(hfResult)
    \/ HuggingFaceFails
    \/ \E outcome \in OcrOutcomes : detectBrandWithOCR(outcome)
    \/ \E detectedColors \in ColorOutcomes : detectColorsWithVision(detectedColors)
    \/ \E serpPrices \in SerpOutcomes : fetchSerpPrice(serpPrices)
    \/ \E response \in GeminiOutcomes : suggestPriceWithSerp(response)

AnalysisSpec == AnalysisInit /\ [][AnalysisNext]_vars

(* ------------------------------ checkout ------------------------------ *)
\* createOrderSession on carts, prices, quantities and client amounts of
\* every kind: a price with the currency sign, a missing price, a price that
\* is no number, a negative price; quantity 0 is a zero quantity.
CartItems ==
    {[price |-> <<Rupee, "1", "0", "0">>, quantity |-> 1],
     [price |-> <<Rupee, "1", "0", "0">>, quantity |-> 0],
     [price |-> <<>>, quantity |-> 1],
     [price |-> <<"f", "r", "e", "e">>, quantity |-> 1],
     [price |-> <<"-", "5", "0">>, quantity |-> 2]}

\* 0 is a missing amount; 130 is within 1 of 100 + 29, 131 is not.
Amounts == {0, 5, 130, 131}

CheckoutNext ==
    \E r \in Slots, u \in Buyers, cart \in {{}, {Oid(1)}, {Oid(1), StaticId}},
       item \in CartItems, amount \in Amounts :
        CreateOrder(r, u, cart, item, amount) /\ UNCHANGED <<ai, user, otps, clock>>

CheckoutSpec == Init /\ [][CheckoutNext]_vars

(* ------------------------------ addresses ----------------------------- *)
\* The address handlers of one user, one call after the other: each runs
\* from User.findById to user.save() before the next begins.  The requests
\* are authenticated, so the user is found.
DefaultCount(addresses) == Cardinality({i \in DOMAIN addresses : addresses[i].isDefault})

\* UserSchema's validator of addresses, run by user.save().
ValidAddresses(addresses) == DefaultCount(addresses) <= 1

ClearNothing(addresses) == addresses

\* user.addresses.forEach(addr => addr.isDefault = false)
ClearDefaults(addresses) == [i \in DOMAIN addresses |-> [addresses[i] EXCEPT !.isDefault = FALSE]]

FindAddress(addressId) == {i \in DOMAIN user.addresses : user.addresses[i].id = addressId}

\* user.save() and the answer; a document the validator refuses is not
\* written and the catch answers 500.
SaveAddresses(r, kind, body, addresses) ==
    /\ started' = started + 1
    /\ IF ValidAddresses(addresses)
         THEN /\ user' = [user EXCEPT !.addresses = addresses]
              /\ Respond(r, kind, user.email, body.addressId, body, "ok")
         ELSE /\ UNCHANGED user
              /\ Respond(r, kind, user.email, body.addressId, body, "ServerError")

\* The subdocument pushed gets a fresh _id, here the number of the request.
AddAddress(r, name, isDefault) ==
    LET body == [NoBody EXCEPT !.addressId = started + 1, !.name = name,
                               !.isDefault = isDefault]
        cleared == IF isDefault THEN ClearDefaults(user.addresses) ELSE user.addresses
    IN  /\ CanStart(r)
        /\ Len(user.addresses) < MaxAddresses
        /\ SaveAddresses(r, "addAddress", body,
                         Append(cleared, [id |-> started + 1, name |-> name,
                                          isDefault |-> isDefault]))

UpdateAddress(r, addressId, name, isDefault) ==
    LET body == [NoBody EXCEPT !.addressId = addressId, !.name = name,
                               !.isDefault = isDefault]
    IN  /\ CanStart(r)
        /\ IF FindAddress(addressId) = {}
             THEN /\ started' = started + 1
                  /\ Respond(r, "updateAddress", user.email, addressId, body, "NotFound")
                  /\ UNCHANGED user
             ELSE LET i == CHOOSE k \in FindAddress(addressId) : TRUE
                      named == [user.addresses EXCEPT ![i].name = name]
                  IN  SaveAddresses(r, "updateAddress", body,
                                    IF isDefault
                                      THEN [ClearDefaults(named) EXCEPT ![i].isDefault = TRUE]
                                      ELSE named)

DeleteAddress(r, addressId) ==
    /\ CanStart(r)
    /\ SaveAddresses(r, "deleteAddress", [NoBody EXCEPT !.addressId = addressId],
                     SelectSeq(user.addresses, LAMBDA addr : addr.id # addressId))

SetDefaultAddress(r, addressId) ==
    /\ CanStart(r)
    /\ SaveAddresses(r, "setDefault", [NoBody EXCEPT !.addressId = addressId],
                     [i \in DOMAIN user.addresses |->
                         [user.addresses[i] EXCEPT
                             !.isDefault = (user.addresses[i].id = addressId)]])

\* An addressId is the id of an address the user has, had or never had.
AddressNext ==
    \E r \in Slots :
        \/ \E name \in {"home", "work"}, isDefault \in BOOLEAN :
              AddAddress(r, name, isDefault) /\ UNCHANGED <<products, orders, ai, otps, clock>>
        \/ \E addressId \in 1..MaxRequests, name \in {"home", "work"}, isDefault \in BOOLEAN :
              UpdateAddress(r, addressId, name, isDefault)
                  /\ UNCHANGED <<products, orders, ai, otps, clock>>
        \/ \E addressId \in 1..MaxRequests :
              DeleteAddress(r, addressId) /\ UNCHANGED <<products, orders, ai, otps, clock>>
        \/ \E addressId \in 1..MaxRequests :
              SetDefaultAddress(r, addressId)
                  /\ UNCHANGED <<products, orders, ai, otps, clock>>

AddressSpec == Init /\ [][AddressNext]_vars

(* --------------------------- password reset --------------------------- *)
\* validatePassword accepts a password or names what it lacks.
StrongPassword(newPassword) == newPassword = "Str0ng!pass"

\* OTP.create({email, otp, expiresAt}): used defaults to false.
NewOtp(email, otp, expiresAt) ==
    [email |-> email, otp |-> otp, expiresAt |-> expiresAt, used |-> FALSE]

\* The OTP is stored before the mail is sent; sent is whether the mail went out.
ForgotPassword(r, email, otp, sent) ==
    LET body == [NoBody EXCEPT !.email = email, !.otp = otp]
    IN  /\ CanStart(r)
        /\ started' = started + 1
        /\ UNCHANGED <<user, clock>>
        /\ IF email = "none"
             THEN /\ Respond(r, "forgot", email, 0, body, "ValidationError")
                  /\ UNCHANGED otps
             ELSE IF user.email # email
             THEN /\ Respond(r, "forgot", email, 0, body, "NotFound")
                  /\ UNCHANGED otps
             ELSE /\ Len(otps) < MaxOtps
                  /\ otps' = Append(otps, NewOtp(email, otp, clock + 10))
                  /\ Respond(r, "forgot", email, Len(otps) + 1, body,
                             IF sent THEN "ok" ELSE "ServerError")

\* OTP.findOne({email, otp, expiresAt: {$gt: now}, used: false})
FindValidOtp(email, otp) ==
    {i \in DOMAIN otps : /\ otps[i].email = email
                         /\ otps[i].otp = otp
                         /\ otps[i].expiresAt > clock
                         /\ ~otps[i].used}

\* Up to and including OTP.findOne; the record found stays with the handler.
ResetPassword(r, email, otp, newPassword) ==
    LET body == [NoBody EXCEPT !.email = email, !.otp = otp, !.newPassword = newPassword]
    IN  /\ CanStart(r)
        /\ started' = started + 1
        /\ UNCHANGED <<user, otps, clock>>
        /\ IF email = "none" \/ otp = "none" \/ newPassword = "none"
                \/ ~StrongPassword(newPassword)
             THEN Respond(r, "reset", email, 0, body, "ValidationError")
             ELSE IF FindValidOtp(email, otp) = {}
             THEN Respond(r, "reset", email, 0, body, "InvalidOtp")
             ELSE LET i == CHOOSE k \in FindValidOtp(email, otp) :
                                \A j \in FindValidOtp(email, otp) : k <= j
                  IN  Begin(r, "reset", email, i, body, "r_user", <<>>, <<>>)

\* User.findOne, bcrypt.hash and user.save(): the password is the one path
\* the save writes.
ResetSaveUser(r) ==
    /\ req[r].pc = "r_user"
    /\ IF user.email # req[r].body.email
         THEN /\ Finish(r, "NotFound")
              /\ UNCHANGED user
         ELSE /\ user' = [user EXCEPT !.password = Hash(req[r].body.newPassword)]
              /\ req' = [req EXCEPT ![r].pc = "r_otp"]
              /\ UNCHANGED last
    /\ UNCHANGED <<otps, clock, started>>

\* otpRecord.used = true; otpRecord.save(); the success mail and the answer.
\* sent is whether the mail went out: sendPasswordResetSuccessEmail throwing
\* ends in the catch.
ResetMarkUsed(r, sent) ==
    /\ req[r].pc = "r_otp"
    /\ otps' = [otps EXCEPT ![req[r].id].used = TRUE]
    /\ Finish(r, IF sent THEN "ok" ELSE "ServerError")
    /\ UNCHANGED <<user, clock, started>>

\* Five minutes pass.
Tick ==
    /\ clock < MaxClock
    /\ clock' = clock + 5
    /\ UNCHANGED <<user, otps, req, last, started>>

\* The requests name the user's email, another one or none; the code sent,
\* or none; a password validatePassword accepts or one it refuses.
OtpNext ==
    \/ \E r \in Slots :
        \/ \E email \in {Email("alice"), "nobody", "none"}, sent \in BOOLEAN :
              ForgotPassword(r, email, "111111", sent) /\ UNCHANGED <<products, orders, ai>>
        \/ \E email \in {Email("alice"), "nobody", "none"}, otp \in {"111111", "none"},
              newPassword \in {"Str0ng!pass", "weak"} :
              ResetPassword(r, email, otp, newPassword) /\ UNCHANGED <<products, orders, ai>>
        \/ ResetSaveUser(r) /\ UNCHANGED <<products, orders, ai>>
        \/ \E sent \in BOOLEAN : ResetMarkUsed(r, sent) /\ UNCHANGED <<products, orders, ai>>
    \/ Tick /\ UNCHANGED <<products, orders, ai>>

OtpSpec == Init /\ [][OtpNext]_vars

(* ---------------------------- observations ---------------------------- *)
\* A request arrived and was answered in the same step.
AnswersAtOnce == started' = started + 1 /\ req' = req

\* The handler of slot r takes its last step and answers.
Finishes(r) == req[r].pc # "idle" /\ req'[r].pc = "idle"

\* The handler of slot r ends in its catch: the store failed its database call.
StoreFails(r) == Finishes(r) /\ last'.resp = "ServerError"

ListedProductPresent(doc) == doc.listed_product # <<>>

CartProducts(cart) == {p \in DOMAIN products : Oid(p) \in ValidObjectIds(cart)}

(* ------------------------------- claims ------------------------------- *)
\* C1: in every reachable state every product has a listed_product exactly
\* when its status is listed or sold.
C1_ListedProductIffListedOrSold ==
    \A p \in DOMAIN products :
        ListedProductPresent(products[p]) <=> products[p].status \in {"listed", "sold"}

\* C2: an adminReview with action approve that loaded a product whose status
\* is not approved, and whose stored status is not approved either, answers
\* InvalidState and leaves the stored product as it is.
C2_ApproveRequiresApproved ==
    [][\A r \in Slots :
          (/\ req[r].kind = "review" /\ req[r].body.action = "approve"
           /\ req[r].doc[1].status # "approved"
           /\ products[req[r].id].status # "approved"
           /\ Finishes(r))
          => (last'.resp = "InvalidState" /\ products' = products)]_vars

\* C3: of two adminReview requests that both loaded the same approved
\* product, the one that saves after the other has decided the product
\* answers InvalidState and leaves the stored product as it is.
C3_ConcurrentReviewsOneSucceeds ==
    [][\A r \in Slots :
          (/\ req[r].kind = "review"
           /\ req[r].doc[1].status = "approved"
           /\ products[req[r].id].status \in {"listed", "rejected"}
           /\ Finishes(r))
          => (last'.resp = "InvalidState" /\ products' = products)]_vars

\* C4: whenever verifyPayment answers success, the order is paid and every
\* existing product whose id in the cart is an ObjectId is sold; ids that are
\* not ObjectIds are skipped, and a valid signature for a stored order never
\* ends in a rejection.
C4_SuccessMeansPaidAndSold ==
    [][\A r \in Slots :
          (req[r].kind = "verify" /\ Finishes(r) /\ last'.resp = "ok")
          => (/\ \A o \in FindOrderByRazorpayId(req[r].id) : orders'[o].status = "paid"
              /\ \A p \in CartProducts(req[r].ord[1].cart) : products'[p].status = "sold"
              /\ \A p \in DOMAIN products \ CartProducts(req[r].ord[1].cart) :
                    products'[p] = products[p])]_vars

C4_MixedCartSettled ==
    /\ last.kind = "verify" /\ last.resp = "ok" /\ last.matched = 1
    /\ \E o \in DOMAIN orders :
          /\ orders[o].razorpayOrderId = last.id
          /\ orders[o].status = "paid"
          /\ \E p \in DOMAIN products :
                /\ orders[o].cart = {Oid(p), StaticId}
                /\ products[p].status = "sold"

\* C5: a verifyPayment whose signature is not the HMAC of order_id|payment_id
\* answers SignatureInvalid in the step in which it arrives, changes no order
\* and no product, and never reaches the steps that write.
C5_BadSignatureMutatesNothing ==
    /\ [][(AnswersAtOnce /\ last'.kind = "verify"
              /\ last'.body.signature # Hmac(last'.id, last'.body.payment_id))
          => (last'.resp = "SignatureInvalid" /\ orders' = orders /\ products' = products)]_vars
    /\ [](\A r \in Slots :
            req[r].kind = "verify"
            => req[r].body.signature = Hmac(req[r].id, req[r].body.payment_id))

C5_BadSignatureRejected ==
    /\ last.kind = "verify" /\ last.resp = "SignatureInvalid"
    /\ last.body.signature # Hmac(last.id, last.body.payment_id)
    /\ \E o \in DOMAIN orders : orders[o].razorpayOrderId = last.id /\ orders[o].status = "created"

C7_RedeliveryConverges ==
    /\ [][\A r \in Slots :
            (req[r].kind = "verify" /\ req[r].pc = "v_update" /\ req'[r] # req[r]
                /\ ~StoreFails(r))
            => \A o \in FindOrderByRazorpayId(req[r].id) :
                  /\ orders'[o].status = "paid"
                  /\ orders'[o].razorpayPaymentId = req[r].body.payment_id]_vars
    /\ [][\A r \in Slots :
            (req[r].kind = "verify" /\ req[r].pc = "v_mark" /\ Finishes(r)
                /\ last'.resp # "ok")
            => (last'.resp = "ServerError" /\ products' = products)]_vars
    /\ [](\A r \in Slots :
            /\ (req[r].kind = "verify" /\ req[r].pc = "v_update") => ENABLED VerifyUpdate(r)
            /\ (req[r].kind = "verify" /\ req[r].pc = "v_mark")
               => ENABLED (/\ VerifyMark(r)
                           /\ last'.resp = "ok"
                           /\ \A p \in CartProducts(req[r].ord[1].cart) :
                                 products'[p].status = "sold"))

C7_TwoSettlementsInterleaved ==
    \E r, q \in Slots :
        /\ r # q
        /\ req[r].kind = "verify" /\ req[q].kind = "verify" /\ req[r].id = req[q].id
        /\ req[r].pc = "v_mark" /\ req[q].pc = "v_mark"
        /\ \E p \in CartProducts(req[r].ord[1].cart) : products[p].status # "sold"

\* C8: the result of an 'all listed' query, public or admin, is the set of
\* products whose status is listed in the state the query reads: it holds no
\* sold product and is disjoint from what 'all sold' returns in that state.
C8_ListedExcludesSold ==
    [][(AnswersAtOnce /\ last'.kind \in {"listed-public", "admin-listed"} /\ last'.resp = "ok")
       => (/\ last'.result = {p \in DOMAIN products : products[p].status = "listed"}
           /\ \A p \in last'.result : products[p].status # "sold"
           /\ last'.result \cap Find(SoldFilter) = {})]_vars

C8_ListedQueriedAfterSale ==
    /\ last.kind \in {"listed-public", "admin-listed"} /\ last.resp = "ok"
    /\ last.result = {}
    /\ \E p \in DOMAIN products : products[p].status = "sold"

C10_SoldIsTerminal ==
    [][\A p \in DOMAIN products :
          products[p].status = "sold" => products'[p].status = "sold"]_vars

\* C11: every step that moves a product into status sold moves it from
\* status listed: no settlement step makes a pending, approved or rejected
\* product sold.
C11_SoldOnlyFromListed ==
    [][\A p \in DOMAIN products :
          (products[p].status # "sold" /\ products'[p].status = "sold")
          => products[p].status = "listed"]_vars

\* C12: a seller's acceptOffer or rejectOffer that loaded a pending product
\* and saves after another request has moved the stored product out of
\* pending does not succeed and leaves the stored product as it is.
C12_SellerDecisionGuarded ==
    [][\A r \in Slots :
          (/\ req[r].kind \in {"accept", "reject"}
           /\ products[req[r].id].status # "pending"
           /\ Finishes(r))
          => (last'.resp # "ok" /\ products' = products)]_vars

\* C13: in every reachable state every order has a razorpayPaymentId exactly
\* when its status is paid.
C13_PaymentIdIffPaid ==
    \A o \in DOMAIN orders :
        (orders[o].razorpayPaymentId # "none") <=> (orders[o].status = "paid")

C13_OrderPaidWithPaymentId ==
    /\ last.kind = "verify" /\ last.resp = "ok"
    /\ \E o \in DOMAIN orders :
          /\ orders[o].razorpayOrderId = last.id
          /\ orders[o].status = "paid" /\ orders[o].razorpayPaymentId = "pay_1"

\* C14: an order whose status is paid keeps its status and its
\* razorpayPaymentId in every step.
C14_PaidOrderNeverChanges ==
    [][\A o \in DOMAIN orders :
          orders[o].status = "paid"
          => (/\ orders'[o].status = "paid"
              /\ orders'[o].razorpayPaymentId = orders[o].razorpayPaymentId)]_vars

\* C15: the order update of a verifyPayment with a valid signature leaves the
\* order paid with the payment id of the request whatever status the order
\* had; a verifyPayment that loaded an order already paid can take each of
\* its steps, and when it answers and the store has not failed it answers
\* success with the order paid and the cart's products sold.
C15_VerifyIgnoresPriorStatus ==
    /\ [][\A r \in Slots :
            (req[r].kind = "verify" /\ req[r].pc = "v_update" /\ req'[r] # req[r]
                /\ ~StoreFails(r))
            => \A o \in FindOrderByRazorpayId(req[r].id) :
                  orders'[o] = [orders[o] EXCEPT !.status = "paid",
                                                 !.razorpayPaymentId = req[r].body.payment_id]]_vars
    /\ [][\A r \in Slots :
            (req[r].kind = "verify" /\ req[r].ord[1].status = "paid" /\ Finishes(r)
                /\ ~StoreFails(r))
            => (/\ last'.resp = "ok"
                /\ \A o \in FindOrderByRazorpayId(req[r].id) : orders'[o].status = "paid"
                /\ \A p \in CartProducts(req[r].ord[1].cart) :
                      products'[p].status = "sold")]_vars
    /\ [](\A r \in Slots :
            (req[r].kind = "verify" /\ req[r].ord[1].status = "paid")
            => (/\ req[r].pc = "v_update" => ENABLED VerifyUpdate(r)
                /\ req[r].pc = "v_mark" => ENABLED (VerifyMark(r) /\ last'.resp = "ok")))

C15_PaidOrderReverified ==
    \E r \in Slots :
        /\ req[r].kind = "verify" /\ req[r].pc = "v_mark"
        /\ req[r].ord[1].status = "paid"
        /\ req[r].ord[1].razorpayPaymentId = ManualPayment
        /\ \A o \in FindOrderByRazorpayId(req[r].id) :
              orders[o].status = "paid" /\ orders[o].razorpayPaymentId = "pay_1"
        /\ \E p \in CartProducts(req[r].ord[1].cart) : products[p].status = "sold"

\* C16: a verifyPayment whose signature is valid and whose order reference
\* matches no stored order answers OrderNotFound in the step in which it
\* arrives and changes no order and no product; no verifyPayment is in flight
\* for a reference that matches no order.
C16_UnknownOrderMutatesNothing ==
    /\ [][(/\ AnswersAtOnce /\ last'.kind = "verify"
           /\ last'.body.signature = Hmac(last'.id, last'.body.payment_id)
           /\ FindOrderByRazorpayId(last'.id) = {})
          => (last'.resp = "OrderNotFound" /\ orders' = orders /\ products' = products)]_vars
    /\ [](\A r \in Slots :
            req[r].kind = "verify" => FindOrderByRazorpayId(req[r].id) # {})

C16_UnknownOrderRejected ==
    /\ last.kind = "verify" /\ last.resp = "OrderNotFound"
    /\ last.body.signature = Hmac(last.id, last.body.payment_id)
    /\ orders = <<>>
    /\ products # <<>>

\* C17: a complete-order whose order is paid in the store, at its arrival or
\* at its order update after another settlement has paid the order since it
\* was read, changes no order and no product.
C17_OverrideSkipsPaidOrder ==
    /\ [][(AnswersAtOnce /\ last'.kind = "complete" /\ IsAdmin(last'.caller)
              /\ OrderExists(last'.id) /\ orders[last'.id].status = "paid")
          => (orders' = orders /\ products' = products)]_vars
    /\ [][\A r \in Slots :
            (/\ req[r].kind = "complete" /\ req[r].pc = "c_update"
             /\ orders[req[r].id].status = "paid"
             /\ req'[r] # req[r])
            => (orders' = orders /\ products' = products)]_vars

\* C18: a complete-order that has paid its order answers success and leaves
\* every existing product whose id in the cart is an ObjectId sold, whatever
\* other ids the cart holds.
C18_OverrideSellsPersistedProducts ==
    [][\A r \in Slots :
          (req[r].kind = "complete" /\ req[r].pc = "c_mark" /\ Finishes(r))
          => (/\ last'.resp = "ok"
              /\ \A p \in CartProducts(req[r].ord[1].cart) : products'[p].status = "sold")]_vars

\* C19: when the product update of a verifyPayment fails, the step changes no
\* order: the order the handler paid is still paid and has a
\* razorpayPaymentId; and no step of a verifyPayment takes an order out of
\* paid.
C19_PaymentNeverRolledBack ==
    /\ [][\A r \in Slots :
            (req[r].kind = "verify" /\ req[r].pc = "v_mark" /\ StoreFails(r))
            => (/\ orders' = orders
                /\ \A o \in FindOrderByRazorpayId(req[r].id) :
                      /\ orders'[o].status = "paid"
                      /\ orders'[o].razorpayPaymentId # "none")]_vars
    /\ [][\A r \in Slots, o \in DOMAIN orders :
            (req[r].kind = "verify" /\ req'[r] # req[r] /\ orders[o].status = "paid")
            => orders'[o].status = "paid"]_vars

C19_ProductUpdateFailed ==
    /\ last.kind = "verify" /\ last.resp = "ServerError"
    /\ started = 3 /\ products # <<>>
    /\ \A r \in Slots : Free(r)
    /\ \E o \in DOMAIN orders :
          /\ orders[o].razorpayOrderId = last.id
          /\ orders[o].status = "paid" /\ orders[o].razorpayPaymentId = "pay_1"
          /\ \E p \in CartProducts(orders[o].cart) : products[p].status # "sold"

\* C20: when the product update of a verifyPayment fails after the order was
\* paid, the answer is PartialSettlement, which is not the answer given when
\* the order update itself fails and the order is not paid.
C20_PartialSettlementDistinct ==
    [][\A r \in Slots :
          (/\ req[r].kind = "verify" /\ req[r].pc = "v_mark" /\ Finishes(r)
           /\ \E p \in CartProducts(req[r].ord[1].cart) : products'[p].status # "sold")
          => (last'.resp = "PartialSettlement" /\ last'.resp # "ServerError")]_vars

\* C21: an acceptOffer is answered at once, with a rejection and no change
\* of any product, unless both details are present, the product exists, the
\* caller is its seller and its status is pending; only such a request goes
\* on to the save, and its save, made on the product as it was read, moves
\* the product from pending to approved and stores both details.
C21_AcceptOnlyByOwnerOnPending ==
    /\ [][(AnswersAtOnce /\ last'.kind = "accept")
          => (/\ last'.resp \in {"ValidationError", "NotFound"}
              /\ products' = products
              /\ ~(/\ last'.body.pickup_details # "none"
                   /\ last'.body.payment_details # "none"
                   /\ ProductExists(last'.id)
                   /\ products[last'.id].seller = last'.caller
                   /\ products[last'.id].status = "pending"))]_vars
    /\ [](\A r \in Slots :
            req[r].kind = "accept"
            => (/\ req[r].body.pickup_details # "none"
                /\ req[r].body.payment_details # "none"
                /\ req[r].doc[1].seller = req[r].caller
                /\ req[r].doc[1].status = "pending"))
    /\ [][\A r \in Slots :
            (req[r].kind = "accept" /\ Finishes(r) /\ products[req[r].id] = req[r].doc[1])
            => (/\ last'.resp = "ok"
                /\ products[req[r].id].status = "pending"
                /\ products' = [products EXCEPT ![req[r].id] =
                       [@ EXCEPT !.status = "approved",
                                 !.pickup_details = req[r].body.pickup_details,
                                 !.payment_details = req[r].body.payment_details]])]_vars

C21_OfferAccepted ==
    /\ last.kind = "accept" /\ last.resp = "ok" /\ last.caller = "alice"
    /\ products[last.id].status = "approved"
    /\ products[last.id].pickup_details = "given"
    /\ products[last.id].payment_details = "given"

\* C22: a rejectOffer is answered at once, with a rejection and no change of
\* any product, unless the product exists, the caller is its seller and its
\* status is pending; the save of one that goes on, made on the product as it
\* was read, moves the product from pending to rejected, stores a supplied
\* reason in admin_review.admin_notes behind the prefix "Rejected by seller: "
\* and changes no other field.
C22_RejectOnlyByOwnerOnPending ==
    /\ [][(AnswersAtOnce /\ last'.kind = "reject")
          => (/\ last'.resp = "NotFound"
              /\ products' = products
              /\ ~(/\ ProductExists(last'.id)
                   /\ products[last'.id].seller = last'.caller
                   /\ products[last'.id].status = "pending"))]_vars
    /\ [](\A r \in Slots :
            req[r].kind = "reject"
            => (req[r].doc[1].seller = req[r].caller /\ req[r].doc[1].status = "pending"))
    /\ [][\A r \in Slots :
            (req[r].kind = "reject" /\ Finishes(r) /\ products[req[r].id] = req[r].doc[1])
            => (/\ last'.resp = "ok"
                /\ products[req[r].id].status = "pending"
                /\ products'[req[r].id].status = "rejected"
                /\ req[r].body.reason # "none"
                   => /\ products'[req[r].id].admin_review # <<>>
                      /\ products'[req[r].id].admin_review[1].admin_notes
                            = [prefix |-> "Rejected by seller: ", text |-> req[r].body.reason]
                /\ req[r].body.reason = "none"
                   => products'[req[r].id].admin_review = products[req[r].id].admin_review
                /\ \A f \in DOMAIN products[req[r].id] \ {"status", "admin_review"} :
                      products'[req[r].id][f] = products[req[r].id][f])]_vars

C22_OfferRejectedWithReason ==
    /\ last.kind = "reject" /\ last.resp = "ok" /\ last.body.reason = "too low"
    /\ products[last.id].status = "rejected"
    /\ products[last.id].admin_review # <<>>
    /\ products[last.id].admin_review[1].admin_notes.prefix = "Rejected by seller: "

\* C23: an adminReview, editPrice, admin listing query or complete-order whose
\* caller's email is not the admin address is answered Forbidden in the step
\* in which it arrives and changes no product and no order; no such request
\* is ever in flight.
C23_AdminOnly ==
    /\ [][(/\ started' = started + 1
           /\ last'.kind \in {"review", "edit", "complete", "admin-listed", "admin-sold",
                              "admin-pending"}
           /\ last' # last
           /\ Email(last'.caller) # AdminEmail)
          => (/\ last'.resp = "Forbidden" /\ last'.result = {}
              /\ req' = req /\ products' = products /\ orders' = orders)]_vars
    /\ [](\A r \in Slots :
            req[r].kind \in {"review", "edit", "complete"}
            => Email(req[r].caller) = AdminEmail)

C23_NonAdminRefused ==
    /\ last.kind = "review" /\ last.resp = "Forbidden" /\ last.caller = "bob"
    /\ last.body.action = "approve" /\ last.body.final_price = 100
    /\ ProductExists(last.id) /\ products[last.id].status = "approved"

\* C24: an adminReview by the admin whose action is neither approve nor
\* reject, or whose action is approve on an existing product with a
\* final_price that is missing, zero or negative, is answered ValidationError
\* in the step in which it arrives and changes no product; no such request is
\* ever in flight.
C24_ReviewValidated ==
    /\ [][(/\ AnswersAtOnce /\ last'.kind = "review"
           /\ Email(last'.caller) = AdminEmail
           /\ \/ last'.body.action \notin {"approve", "reject"}
              \/ /\ last'.body.action = "approve" /\ last'.body.final_price <= 0
                 /\ ProductExists(last'.id))
          => (last'.resp = "ValidationError" /\ products' = products)]_vars
    /\ [](\A r \in Slots :
            req[r].kind = "review"
            => (/\ req[r].body.action \in {"approve", "reject"}
                /\ req[r].body.action = "approve" => req[r].body.final_price > 0))

C24_BadReviewRefused ==
    /\ last.kind = "review" /\ last.resp = "ValidationError" /\ last.caller = "admin"
    /\ last.body.action = "approve" /\ last.body.final_price = 0
    /\ ProductExists(last.id) /\ products[last.id].status = "approved"

\* C25: an editPrice by the admin on an existing product whose status is not
\* listed, or with a price that is missing, zero or negative, is answered
\* with a rejection in the step in which it arrives and changes no product;
\* an editPrice in flight read a listed product and has a positive price, and
\* its save never changes the status of the product.
C25_EditOnlyListed ==
    /\ [][(/\ AnswersAtOnce /\ last'.kind = "edit"
           /\ Email(last'.caller) = AdminEmail
           /\ ProductExists(last'.id)
           /\ (products[last'.id].status # "listed" \/ last'.body.price <= 0))
          => (/\ last'.resp \in {"ValidationError", "InvalidState"}
              /\ products' = products)]_vars
    /\ [](\A r \in Slots :
            req[r].kind = "edit"
            => (req[r].doc[1].status = "listed" /\ req[r].body.price > 0))
    /\ [][\A r \in Slots :
            (req[r].kind = "edit" /\ Finishes(r))
            => products'[req[r].id].status = products[req[r].id].status]_vars

C25_EditOfSoldRefused ==
    /\ last.kind = "edit" /\ last.resp = "InvalidState" /\ last.caller = "admin"
    /\ last.body.price = 100
    /\ products[last.id].status = "sold"
    /\ products[last.id].listed_product # <<>>

\* C26: when an adminReview with action approve, or an editPrice, with an mrp
\* supplied saves the product as it was read and answers success, the
\* discount_percentage stored in admin_review and in listed_product is
\* round((mrp - price) / mrp * 100) for the price and mrp of the request.
C26_DiscountComputed ==
    [][\A r \in Slots :
          (/\ req[r].kind \in {"review", "edit"} /\ Finishes(r) /\ last'.resp = "ok"
           /\ req[r].kind = "review" => req[r].body.action = "approve"
           /\ req[r].body.mrp # 0
           /\ products[req[r].id] = req[r].doc[1])
          => LET price == IF req[r].kind = "review" THEN req[r].body.final_price
                          ELSE req[r].body.price
                 discount == RoundPercent(req[r].body.mrp - price, req[r].body.mrp)
             IN /\ products'[req[r].id].admin_review[1].discount_percentage = discount
                /\ products'[req[r].id].listed_product[1].discount_percentage = discount]_vars

\* C27: a run of analyzeProduct never ends in the raise of its outer catch;
\* at every point of a run one of its steps can be taken, the classifier can
\* fail and every outcome of the reasoning signal, failures included, leads
\* to the return; and what a run returns has the image analysis, the price
\* suggestion, the final recommendation and the report.
C27_AnalysisAlwaysReturns ==
    /\ [](ai.pc # "raised")
    /\ [](Analyzing => ENABLED AnalysisNext)
    /\ [](ai.pc = "classify" => ENABLED (HuggingFaceFails /\ ai'.imageAnalysis # <<>>))
    /\ [](ai.pc = "price"
          => \A response \in GeminiOutcomes :
                ENABLED (/\ suggestPriceWithSerp(response)
                         /\ ai'.pc = "done" /\ ai'.result # <<>>))
    /\ [](ai.pc = "done"
          => (/\ ai.imageAnalysis # <<>> /\ ai.priceSuggestion # <<>> /\ ai.result # <<>>
              /\ ai.result[1].image_analysis = ai.imageAnalysis[1]
              /\ ai.result[1].price_suggestion = ai.priceSuggestion[1]
              /\ ai.result[1].final_recommendation.confidence \in {"High", "Moderate", "Low"}
              /\ ai.result[1].final_recommendation.price
                    = ai.priceSuggestion[1].suggested_price
              /\ ai.result[1].user_report.suggested_price
                    = ai.priceSuggestion[1].suggested_price))

C27_AllSignalsFailed ==
    /\ ai.pc = "done"
    /\ ai.classifier = "failed" /\ ai.serpPrices = <<>> /\ ai.reasoning = "error"
    /\ ai.result # <<>>
    /\ ai.result[1].image_analysis.caption = "Clothing item in good condition"
    /\ ai.result[1].price_suggestion.suggested_price = 500

\* C28: when the reasoning signal is not available (not configured, or
\* failed), the suggested price is 800 for the brand Nike without a market
\* reference, round(avg * 0.5) with a market reference (750 for avg 1500),
\* and 500 with neither a reference nor a brand that contains "nike"; the
\* confidence is 0.6 in every case.
C28_FallbackDeterministic ==
    (ai.pc = "done" /\ ai.reasoning \in {"nokey", "error"})
    => LET suggestion == ai.priceSuggestion[1] IN
       /\ suggestion.confidence_score = 6
       /\ (ai.serpPrices = <<>> /\ ai.brandForPricing = <<"N", "i", "k", "e">>)
          => suggestion.suggested_price = 800
       /\ ai.serpPrices = <<[min |-> 1000, max |-> 2000, avg |-> 1500]>>
          => suggestion.suggested_price = 750
       /\ ai.serpPrices # <<>>
          => 2 * suggestion.suggested_price \in
                {ai.serpPrices[1].avg, ai.serpPrices[1].avg + 1}
       /\ (ai.serpPrices = <<>> /\ ai.brandForPricing \in {<<>>, <<"Z", "a", "r", "a">>})
          => suggestion.suggested_price = 500

C28_FallbackFromReference ==
    /\ ai.pc = "done" /\ ai.reasoning = "nokey"
    /\ ai.serpPrices # <<>> /\ ai.serpPrices[1].avg = 1500
    /\ ai.brandForPricing = Nike
    /\ ai.priceSuggestion[1].suggested_price = 750
    /\ ai.priceSuggestion[1].confidence_score = 6

\* C29: when the reasoning signal answers a text that cannot be parsed and a
\* market reference exists, the suggested price is round(avg * 0.5) of the
\* reference.
C29_UnparsableKeepsReference ==
    (ai.pc = "done" /\ ai.reasoning \in {"nojson", "badjson"} /\ ai.serpPrices # <<>>)
    => 2 * ai.priceSuggestion[1].suggested_price \in
          {ai.serpPrices[1].avg, ai.serpPrices[1].avg + 1}

\* C30: when the parsed answer of the reasoning signal lacks the price, the
\* reasoning, the market comparison, the factors or a confidence within
\* [0, 1], the price suggestion has the fallback's confidence 0.6 and the
\* fallback's reasoning, market comparison and factors.
C30_MalformedAnswerIsFallback ==
    (/\ ai.pc = "done" /\ ai.reasoning = "json"
     /\ \/ ai.gemini.parsed.suggested_price = 0
        \/ ai.gemini.parsed.reasoning = "none"
        \/ ai.gemini.parsed.market_comparison = "none"
        \/ ai.gemini.parsed.factors = <<>>
        \/ ai.gemini.parsed.confidence_score \notin 1..10)
    => LET suggestion == ai.priceSuggestion[1]
           fallback == fallbackPriceSuggestion(NoDetails, <<>>) IN
       /\ suggestion.confidence_score = 6
       /\ suggestion.reasoning = fallback.reasoning
       /\ suggestion.market_comparison = fallback.market_comparison
       /\ suggestion.factors = fallback.factors

\* C31: a submission without an image, with a file of a type that is not
\* allowed, with an image that cannot be read or whose analysis fails is
\* answered with an error and changes no product; a submission changes the
\* products only when the upload is a readable image and the analysis has
\* returned, and then by adding one product, which is pending and carries
\* that analysis.
C31_NoProductBeforeAnalysis ==
    [][(AnswersAtOnce /\ last'.kind = "submit")
       => /\ (last'.body.images # "jpeg" \/ last'.body.analysis = <<>>)
               => (/\ products' = products
                   /\ last'.resp \in {"ValidationError", "ServerError"})
          /\ products' # products
               => (/\ last'.body.images = "jpeg" /\ last'.body.analysis # <<>>
                   /\ last'.resp = "ok"
                   /\ products' = Append(products, products'[Len(products')])
                   /\ products'[Len(products')].status = "pending"
                   /\ products'[Len(products')].ai_analysis = last'.body.analysis[1])]_vars

C31_AnalysisFailedNothingStored ==
    /\ last.kind = "submit" /\ last.resp = "ServerError"
    /\ last.body.images = "jpeg" /\ last.body.analysis = <<>>
    /\ products = <<>>

\* C32: every finished run of the pipeline has run the brand OCR, also when
\* the classifier failed, and prices with the brand the OCR detected when it
\* detected one and with the declared brand otherwise.
C32_OcrIndependentOfClassifier ==
    ai.pc = "done"
    => (/\ ai.ocr # "none"
        /\ ai.brandForPricing = BrandForPricing(ai.detectedBrand, ai.details.brand))

\* C33: the tags of every listed_product hold no empty value and no value
\* twice.
C33_TagsDeduplicated ==
    \A p \in DOMAIN products :
        ListedProductPresent(products[p])
        => LET tags == products[p].listed_product[1].tags
           IN  /\ \A i \in DOMAIN tags : Truthy(tags[i])
               /\ \A i, j \in DOMAIN tags : i # j => tags[i] # tags[j]

C35_StoredAmountNearSubtotal ==
    [][(AnswersAtOnce /\ last'.kind = "create")
       => LET body == last'.body
              subtotal == cartSubtotal(body.cart, body.item, Num(0))
              expected == Plus(subtotal, Num(29))
          IN  /\ orders' # orders
                   => (/\ ~subtotal.nan
                       /\ ~OffByMoreThanOne(Num(orders'[Len(orders')].amount), expected)
                       /\ orders'[Len(orders')].amount =
                             IF body.amount # 0 /\ ~OffByMoreThanOne(Num(body.amount), expected)
                               THEN body.amount ELSE expected.n)
              /\ (body.cart = {} \/ (~subtotal.nan /\ subtotal.n <= 0))
                   => orders' = orders]_vars

\* C36: no two different orders whose carts hold the id of the same stored
\* product are both paid.
C36_ProductSoldToOneOrder ==
    \A o1, o2 \in DOMAIN orders :
        (/\ o1 # o2
         /\ \E p \in DOMAIN products : Oid(p) \in orders[o1].cart /\ Oid(p) \in orders[o2].cart)
        => ~(orders[o1].status = "paid" /\ orders[o2].status = "paid")

\* C37: the save of an editPrice on a product that is sold when the save
\* arrives changes neither its listed_product nor its admin_review, and no
\* save of an editPrice changes the status of the product.
C37_SoldPriceNeverChanges ==
    [][\A r \in Slots :
          (req[r].kind = "edit" /\ Finishes(r))
          => /\ products'[req[r].id].status = products[req[r].id].status
             /\ products[req[r].id].status = "sold"
                  => (/\ products'[req[r].id].listed_product =
                            products[req[r].id].listed_product
                      /\ products'[req[r].id].admin_review =
                            products[req[r].id].admin_review)]_vars

\* C38: the analysis a run returns after the classifier answered makes a
\* product the schema accepts: its condition_score is within 1..10.
C38_ConditionScoreStorable ==
    (ai.pc = "done" /\ ai.classifier = "ok")
    => ValidProduct([ai_analysis |-> ai.result[1]])

\* C39: after every address call at most one address of the user is the
\* default; an add or update with isDefault, and a set-default of an address
\* the user has, succeeds and leaves that address the default and no other.
C39_AtMostOneDefault ==
    [][/\ DefaultCount(user'.addresses) <= 1
       /\ (/\ AnswersAtOnce
           /\ \/ /\ last'.kind \in {"addAddress", "updateAddress"}
                 /\ last'.body.isDefault
                 /\ last'.resp # "NotFound"
              \/ /\ last'.kind = "setDefault"
                 /\ FindAddress(last'.id) # {})
          => (/\ last'.resp = "ok"
              /\ \A i \in DOMAIN user'.addresses :
                    user'.addresses[i].isDefault <=> (user'.addresses[i].id = last'.id))]_vars

C39_DefaultAmongTwo ==
    /\ last.kind = "setDefault" /\ last.resp = "ok"
    /\ Len(user.addresses) = 2
    /\ user.addresses[1].id = last.id
    /\ user.addresses[1].isDefault /\ ~user.addresses[2].isDefault
    /\ user.addresses[2].id = user.addresses[1].id + 1

\* C40: a reset-password answers success only for an OTP record that no
\* reset-password has marked used before.
C40_OtpSingleUse ==
    [][\A r \in Slots :
          (req[r].kind = "reset" /\ Finishes(r) /\ last'.resp = "ok")
          => ~otps[req[r].id].used]_vars
====
